---------------------------- MODULE Spec2Model ----------------------------
(***************************************************************************)
(* Hua Rong Dao solver (src/hrd.py): the Piece / Board / State data model,  *)
(* the move generator, the Manhattan heuristic, depth-first search, A*      *)
(* search over a binary heap, and the path reconstructor.                   *)
(*                                                                         *)
(* Python objects live in an arena: `states` is the sequence of the State   *)
(* objects the search keeps alive, a reference to a State is its index in   *)
(* that sequence and None is the reference 0.                               *)
(***************************************************************************)
EXTENDS Integers, Sequences, FiniteSets, TLC

VARIABLES
    algo,         \* args.algo: "dfs" or "astar"
    initial,      \* the Board read from the input file
    states,       \* arena of State objects; states[1] is the initial State
    frontier,     \* dfs: stack of references; astar: heap array of references
    explored,     \* dfs: list of grids; astar: dict  str(board) -> reference
    curr,         \* reference of the State popped last (None before a pop)
    successors,   \* the list generate_successors returned for curr
    pops,         \* number of pops of the frontier so far
    pc,           \* "search", "returned" (dfs/astar returned), "done"
    result,       \* reference dfs/astar returned (None = 0)
    path,         \* get_solution: the Boards written, in the order written
    state_count,  \* get_solution: the count it prints
    walk          \* SlideSpec only: the Board a sequence of slides has led to,
                  \* manhattan of the Board it started from (h0) and the
                  \* number of slides of the Goal piece in it

vars == <<algo, initial, states, frontier, explored, curr, successors, pops,
          pc, result, path, state_count, walk>>

\* Board.width and Board.height
width == 4
height == 5

\* the Goal piece's target anchor, as goal_test and manhattan fix it
target_x == 1
target_y == 3

\* number of non-goal pieces on an initial Board
MaxPieces == 1

\* cap of the number of Goal-piece slides in a slide sequence
MaxSlides == 5

char_goal == "1"
char_single == "2"
char_empty == "."

None == 0

abs(n) == IF n < 0 THEN -n ELSE n

\* F applied to the value of v: v is evaluated once, before F uses it (a loop
\* variable holds a value, not an expression to evaluate again at every use)
Strict(F(_), v) == CHOOSE r \in {F(x) : x \in {v}} : TRUE

(***************************************************************************)
(* Piece and Board                                                         *)
(***************************************************************************)
Piece(is_goal, is_single, coord_x, coord_y, orientation) ==
    [is_goal |-> is_goal, is_single |-> is_single, coord_x |-> coord_x,
     coord_y |-> coord_y, orientation |-> orientation]

\* grid[y][x] = ch; a write outside the list raises IndexError in Python (or
\* wraps for a negative index): it is dropped here and no reachable Board
\* makes one (ValidBoard).
SetCell(grid, x, y, ch) ==
    IF x \in 0..(width - 1) /\ y \in 0..(height - 1)
    THEN [grid EXCEPT ![y][x] = ch]
    ELSE grid

\* the symbols one piece writes, in the order of the branches of __construct_grid
DrawPiece(grid, piece) ==
    LET x == piece.coord_x
        y == piece.coord_y
    IN  IF piece.is_goal
        THEN SetCell(SetCell(SetCell(SetCell(grid, x, y, char_goal),
                 x + 1, y, char_goal), x, y + 1, char_goal), x + 1, y + 1, char_goal)
        ELSE IF piece.is_single
        THEN SetCell(grid, x, y, char_single)
        ELSE IF piece.orientation = "h"
        THEN SetCell(SetCell(grid, x, y, "<"), x + 1, y, ">")
        ELSE IF piece.orientation = "v"
        THEN SetCell(SetCell(grid, x, y, "^"), x, y + 1, "v")
        ELSE grid

RECURSIVE DrawPieces(_, _, _)
DrawPieces(grid, pieces, i) ==
    IF i > Len(pieces) THEN grid
    ELSE DrawPieces(DrawPiece(grid, pieces[i]), pieces, i + 1)

\* Board.__construct_grid: height rows of width '.', then every piece in list order
construct_grid(pieces) ==
    DrawPieces([i \in 0..(height - 1) |-> [j \in 0..(width - 1) |-> char_empty]],
               pieces, 1)

\* Board.__init__
Board(pieces) == [pieces |-> pieces, grid |-> construct_grid(pieces)]

\* Board.empty_spaces: the [i, j] with grid[i][j] == '.'
empty_spaces(board) ==
    {ij \in (0..(height - 1)) \X (0..(width - 1)) : board.grid[ij[1]][ij[2]] = char_empty}

\* mutant of is_empty: a coordinate off the board counts as empty
is_empty_off_board(board, x, y) ==
    IF x < 0 \/ x > 3 \/ y < 0 \/ y > 4
    THEN TRUE
    ELSE <<y, x>> \in empty_spaces(board)

\* Board.is_empty
is_empty(board, x, y) ==
    IF x < 0 \/ x > 3 \/ y < 0 \/ y > 4
    THEN FALSE
    ELSE <<y, x>> \in empty_spaces(board)

\* Board.get_goal: the coordinates of the first goal piece of the list
get_goal(board) ==
    LET gs == {i \in 1..Len(board.pieces) : board.pieces[i].is_goal}
        g  == CHOOSE i \in gs : \A j \in gs : i <= j
    IN  <<board.pieces[g].coord_x, board.pieces[g].coord_y>>

\* Board.__str__: the rows of the grid joined, as the sequence of its 20 characters
Board_str(board) ==
    [k \in 1..(width * height) |-> board.grid[(k - 1) \div width][(k - 1) % width]]

\* mutant of Board_eq: the piece lists are compared, not the rendered grids
Board_eq_by_pieces(a, b) == a.pieces = b.pieces

\* Board.__eq__
Board_eq(a, b) == Board_str(a) = Board_str(b)

\* ord of the characters a grid holds
ord(ch) ==
    CASE ch = "." -> 46 [] ch = "1" -> 49 [] ch = "2" -> 50 [] ch = "<" -> 60
      [] ch = ">" -> 62 [] ch = "^" -> 94 [] ch = "v" -> 118 [] OTHER -> 63

\* str(self.grid): the text of the list of rows, as the sequence of the rows'
\* characters (brackets, quotes and commas are the same for every grid)
grid_str(board) ==
    [k \in 1..(width * height) |-> board.grid[(k - 1) \div width][(k - 1) % width]]

\* hash of a str: a function of its characters only (the interpreter's string
\* hash, fixed for the run of the process), folded left to right
RECURSIVE str_hash(_, _, _)
str_hash(str, k, h) ==
    IF k > Len(str) THEN h
    ELSE str_hash(str, k + 1, (h * 31 + ord(str[k])) % 65521)

\* Board.__hash__
Board_hash(board) == str_hash(grid_str(board), 1, 7)

(***************************************************************************)
(* State, goal test, heuristic                                             *)
(***************************************************************************)
State(board, f, depth, parent) ==
    [board |-> board, f |-> f, depth |-> depth, parent |-> parent]

\* mutant of State_lt: an equal cost counts as lower
State_le(a, b) == a.f <= b.f

\* State.__lt__
State_lt(a, b) == a.f < b.f

\* mutant of goal_test: the second cell tested is in column 1, not column 2
goal_test_one_column(state) ==
    state.board.grid[3][1] = char_goal /\ state.board.grid[4][1] = char_goal

goal_test(state) ==
    state.board.grid[3][1] = char_goal /\ state.board.grid[4][2] = char_goal

\* mutant of manhattan: the target row is the bottom row
manhattan_bottom_row(board) ==
    LET goal == get_goal(board)
    IN  abs(goal[1] - 1) + abs(goal[2] - 4)

manhattan(board) ==
    LET goal == get_goal(board)
    IN  abs(goal[1] - 1) + abs(goal[2] - 3)


(***************************************************************************)
(* Move generator                                                          *)
(***************************************************************************)
\* mutant of new_board: the former piece is not left out of the new list
new_board_keeps_former(old_pieces, new_piece, i) ==
    Board(<<new_piece>> \o old_pieces)

\* new_board: the moved piece first, then every piece of the list but the
\* former one (`is not`: the object at position i of the list)
new_board(old_pieces, new_piece, i) ==
    Board(<<new_piece>> \o SubSeq(old_pieces, 1, i - 1)
                        \o SubSeq(old_pieces, i + 1, Len(old_pieces)))

\* the new_p of the goal piece: right, else left, else down, else up
goal_moves(board, p) ==
    LET x == p.coord_x
        y == p.coord_y
    IN  IF is_empty(board, x + 2, y) /\ is_empty(board, x + 2, y + 1)
        THEN <<Piece(TRUE, FALSE, x + 1, y, "None")>>
        ELSE IF is_empty(board, x - 1, y) /\ is_empty(board, x - 1, y + 1)
        THEN <<Piece(TRUE, FALSE, x - 1, y, "None")>>
        ELSE IF is_empty(board, x, y + 2) /\ is_empty(board, x + 1, y + 2)
        THEN <<Piece(TRUE, FALSE, x, y + 1, "None")>>
        ELSE IF is_empty(board, x, y - 1) /\ is_empty(board, x + 1, y - 1)
        THEN <<Piece(TRUE, FALSE, x, y - 1, "None")>>
        ELSE <<>>

\* mutant of single_moves: the four tests form one if/elif chain
single_moves_first_only(board, p) ==
    LET x == p.coord_x
        y == p.coord_y
    IN  IF is_empty(board, x + 1, y) THEN <<Piece(FALSE, TRUE, x + 1, y, "None")>>
        ELSE IF is_empty(board, x - 1, y) THEN <<Piece(FALSE, TRUE, x - 1, y, "None")>>
        ELSE IF is_empty(board, x, y + 1) THEN <<Piece(FALSE, TRUE, x, y + 1, "None")>>
        ELSE IF is_empty(board, x, y - 1) THEN <<Piece(FALSE, TRUE, x, y - 1, "None")>>
        ELSE <<>>

\* the new_p of a single piece: right, left, down, up, each on its own
single_moves(board, p) ==
    LET x == p.coord_x
        y == p.coord_y
    IN  (IF is_empty(board, x + 1, y)
         THEN <<Piece(FALSE, TRUE, x + 1, y, "None")>> ELSE <<>>)
        \o (IF is_empty(board, x - 1, y)
            THEN <<Piece(FALSE, TRUE, x - 1, y, "None")>> ELSE <<>>)
        \o (IF is_empty(board, x, y + 1)
            THEN <<Piece(FALSE, TRUE, x, y + 1, "None")>> ELSE <<>>)
        \o (IF is_empty(board, x, y - 1)
            THEN <<Piece(FALSE, TRUE, x, y - 1, "None")>> ELSE <<>>)

\* the new_p of a horizontal 1x2 piece: right, left, then down else up
h_moves(board, p) ==
    LET x == p.coord_x
        y == p.coord_y
    IN  (IF is_empty(board, x + 2, y)
         THEN <<Piece(FALSE, FALSE, x + 1, y, "h")>> ELSE <<>>)
        \o (IF is_empty(board, x - 1, y)
            THEN <<Piece(FALSE, FALSE, x - 1, y, "h")>> ELSE <<>>)
        \o (IF is_empty(board, x, y + 1) /\ is_empty(board, x + 1, y + 1)
            THEN <<Piece(FALSE, FALSE, x, y + 1, "h")>>
            ELSE IF is_empty(board, x, y - 1) /\ is_empty(board, x + 1, y - 1)
            THEN <<Piece(FALSE, FALSE, x, y - 1, "h")>>
            ELSE <<>>)

\* the new_p of a vertical 1x2 piece: right else left, then down, up
v_moves(board, p) ==
    LET x == p.coord_x
        y == p.coord_y
    IN  (IF is_empty(board, x + 1, y) /\ is_empty(board, x + 1, y + 1)
         THEN <<Piece(FALSE, FALSE, x + 1, y, "v")>>
         ELSE IF is_empty(board, x - 1, y) /\ is_empty(board, x - 1, y + 1)
         THEN <<Piece(FALSE, FALSE, x - 1, y, "v")>>
         ELSE <<>>)
        \o (IF is_empty(board, x, y + 2)
            THEN <<Piece(FALSE, FALSE, x, y + 1, "v")>> ELSE <<>>)
        \o (IF is_empty(board, x, y - 1)
            THEN <<Piece(FALSE, FALSE, x, y - 1, "v")>> ELSE <<>>)

\* the branch of the loop body of generate_successors taken for piece p
piece_moves(board, p) ==
    IF p.is_goal THEN goal_moves(board, p)
    ELSE IF p.is_single THEN single_moves(board, p)
    ELSE IF p.orientation # "None"
    THEN IF p.orientation = "h" THEN h_moves(board, p)
         ELSE IF p.orientation = "v" THEN v_moves(board, p)
         ELSE <<>>
    ELSE <<>>

\* mutant of piece_successors: the new State gets the depth of the expanded one
piece_successors_same_depth(state, ref, i) ==
    LET moves == piece_moves(state.board, state.board.pieces[i])
        wrap(new_b) ==
            State(new_b, manhattan(new_b) + state.depth + 1, state.depth, ref)
    IN  [k \in 1..Len(moves) |->
            Strict(wrap, new_board(state.board.pieces, moves[k], i))]

\* the States appended for the piece at position i of the list; ref is the
\* reference of the expanded State
piece_successors(state, ref, i) ==
    LET moves == piece_moves(state.board, state.board.pieces[i])
        wrap(new_b) ==
            State(new_b, manhattan(new_b) + state.depth + 1, state.depth + 1, ref)
    IN  [k \in 1..Len(moves) |->
            Strict(wrap, new_board(state.board.pieces, moves[k], i))]

RECURSIVE successors_from(_, _, _)
successors_from(state, ref, i) ==
    IF i > Len(state.board.pieces) THEN <<>>
    ELSE piece_successors(state, ref, i) \o successors_from(state, ref, i + 1)

\* generate_successors: for p in pieces, in list order
generate_successors(state, ref) == successors_from(state, ref, 1)

(***************************************************************************)
(* heapq on a list of references; positions are 0-based as in Python, and  *)
(* sts is the arena the references point into (the comparisons are         *)
(* State.__lt__ on the States referred to)                                 *)
(***************************************************************************)
At(heap, pos) == heap[pos + 1]

Put(heap, pos, item) == [heap EXCEPT ![pos + 1] = item]

\* heapq._siftdown: move newitem up from pos while it is less than its parent
RECURSIVE siftdown(_, _, _, _, _)
siftdown(sts, heap, startpos, pos, newitem) ==
    IF pos > startpos
    THEN LET parentpos == (pos - 1) \div 2
             parent == At(heap, parentpos)
             up(h) == siftdown(sts, h, startpos, parentpos, newitem)
         IN  IF State_lt(sts[newitem], sts[parent])
             THEN Strict(up, Put(heap, pos, parent))
             ELSE Put(heap, pos, newitem)
    ELSE Put(heap, pos, newitem)

\* heapq._siftup: bubble the smaller child up until a leaf, then sift newitem down
RECURSIVE siftup(_, _, _, _, _)
siftup(sts, heap, startpos, pos, newitem) ==
    LET endpos == Len(heap)
        childpos == 2 * pos + 1
        rightpos == childpos + 1
    IN  IF childpos < endpos
        THEN LET c == IF rightpos < endpos
                         /\ ~State_lt(sts[At(heap, childpos)], sts[At(heap, rightpos)])
                      THEN rightpos ELSE childpos
                 down(h) == siftup(sts, h, startpos, c, newitem)
             IN  Strict(down, Put(heap, pos, At(heap, c)))
        ELSE siftdown(sts, Put(heap, pos, newitem), startpos, pos, newitem)

\* mutant of heappush: the item is appended and not sifted
heappush_append(sts, heap, item) == Append(heap, item)

\* heapq.heappush
heappush(sts, heap, item) ==
    siftdown(sts, Append(heap, item), 0, Len(heap), item)

\* mutant of heappop: list.pop(), the last item of the array
heappop_last(sts, heap) == <<heap[Len(heap)], SubSeq(heap, 1, Len(heap) - 1)>>

\* heapq.heappop: <<the item returned, the heap left>>
heappop(sts, heap) ==
    LET lastelt == heap[Len(heap)]
        rest == SubSeq(heap, 1, Len(heap) - 1)
    IN  IF rest # <<>>
        THEN <<rest[1], siftup(sts, rest, 0, 0, lastelt)>>
        ELSE <<lastelt, rest>>

(***************************************************************************)
(* One iteration of the loop of dfs and of astar, as functions of the      *)
(* search's data s = [states, frontier, explored]                          *)
(***************************************************************************)
\* dfs, lines 382-385: the successors from position k on
RECURSIVE dfs_push(_, _, _)
dfs_push(s, succ, k) ==
    IF k > Len(succ) THEN s
    ELSE LET successor == succ[k]
             seen == \E e \in 1..Len(s.explored) : s.explored[e] = successor.board.grid
             rest(t) == dfs_push(t, succ, k + 1)
         IN  IF ~seen
             THEN Strict(rest, [states   |-> Append(s.states, successor),
                                frontier |-> Append(s.frontier, Len(s.states) + 1),
                                explored |-> Append(s.explored, successor.board.grid)])
             ELSE rest(s)

\* astar, lines 409-412: the successors from position k on
RECURSIVE astar_push(_, _, _)
astar_push(s, succ, k) ==
    IF k > Len(succ) THEN s
    ELSE LET successor == succ[k]
             key == Board_str(successor.board)
             rest(t) == astar_push(t, succ, k + 1)
         IN  IF key \notin DOMAIN s.explored
                \/ State_lt(successor, s.states[s.explored[key]])
             THEN LET sts == Append(s.states, successor)
                      ref == Len(sts)
                  IN  Strict(rest, [states   |-> sts,
                                    frontier |-> heappush(sts, s.frontier, ref),
                                    explored |-> [b \in DOMAIN s.explored \cup {key} |->
                                                    IF b = key THEN ref ELSE s.explored[b]]])
             ELSE rest(s)

(***************************************************************************)
(* Input files: the 4x5 text grids of the valid layouts with one goal      *)
(* piece and at most MaxPieces other pieces                                *)
(***************************************************************************)
\* the cells <<x, y>> a piece covers (the cells __construct_grid writes for it)
Footprint(p) ==
    LET x == p.coord_x
        y == p.coord_y
    IN  IF p.is_goal THEN {<<x, y>>, <<x + 1, y>>, <<x, y + 1>>, <<x + 1, y + 1>>}
        ELSE IF p.is_single THEN {<<x, y>>}
        ELSE IF p.orientation = "h" THEN {<<x, y>>, <<x + 1, y>>}
        ELSE IF p.orientation = "v" THEN {<<x, y>>, <<x, y + 1>>}
        ELSE {}

Cells == (0..(width - 1)) \X (0..(height - 1))

InGrid(p) == Footprint(p) \subseteq Cells

GoalPlacements ==
    {p \in {Piece(TRUE, FALSE, x, y, "None") : x \in 0..(width - 1), y \in 0..(height - 1)} :
        InGrid(p)}

OtherPlacements ==
    {p \in {Piece(FALSE, TRUE, x, y, "None") : x \in 0..(width - 1), y \in 0..(height - 1)}
           \cup {Piece(FALSE, FALSE, x, y, o) :
                    x \in 0..(width - 1), y \in 0..(height - 1), o \in {"h", "v"}} :
        InGrid(p)}

Disjoint(S) == \A p \in S : \A q \in S \ {p} : Footprint(p) \cap Footprint(q) = {}

\* the disjoint sets of at most n non-goal pieces
RECURSIVE OtherSets(_)
OtherSets(n) ==
    IF n = 0 THEN {{}}
    ELSE LET prev == OtherSets(n - 1)
         IN  prev \cup {S \cup {p} : S \in prev, p \in OtherPlacements}

Layouts ==
    {S \in {O \cup {g} : O \in OtherSets(MaxPieces), g \in GoalPlacements} : Disjoint(S)}

RECURSIVE SetToSeq(_)
SetToSeq(S) ==
    IF S = {} THEN <<>>
    ELSE LET p == CHOOSE q \in S : TRUE IN <<p>> \o SetToSeq(S \ {p})

\* the layouts with no empty cell: the goal piece and a single piece on every other cell
JammedLayouts ==
    {{g} \cup {Piece(FALSE, TRUE, c[1], c[2], "None") : c \in Cells \ Footprint(g)} :
        g \in GoalPlacements}

InputFiles == {construct_grid(SetToSeq(S)) : S \in Layouts \cup JammedLayouts}

\* read_from_file, the scan from character k on (row-major); g_found as in the code
RECURSIVE scan(_, _, _)
scan(file, k, g_found) ==
    IF k > width * height THEN <<>>
    ELSE LET line_index == (k - 1) \div width
             x == (k - 1) % width
             ch == file[line_index][x]
         IN  IF ch = "^"
             THEN <<Piece(FALSE, FALSE, x, line_index, "v")>> \o scan(file, k + 1, g_found)
             ELSE IF ch = "<"
             THEN <<Piece(FALSE, FALSE, x, line_index, "h")>> \o scan(file, k + 1, g_found)
             ELSE IF ch = char_single
             THEN <<Piece(FALSE, TRUE, x, line_index, "None")>> \o scan(file, k + 1, g_found)
             ELSE IF ch = char_goal /\ ~g_found
             THEN <<Piece(TRUE, FALSE, x, line_index, "None")>> \o scan(file, k + 1, TRUE)
             ELSE scan(file, k + 1, g_found)

read_from_file(file) == Board(scan(file, 1, FALSE))

(***************************************************************************)
(* The program: __main__ builds the initial State and runs one search,     *)
(* then get_solution                                                       *)
(***************************************************************************)
NoWalk == [board |-> None, h0 |-> 0, goal_slides |-> 0]

Init ==
    /\ algo \in {"astar", "dfs"}
    /\ initial \in {read_from_file(file) : file \in InputFiles}
    /\ states = <<State(initial, manhattan(initial), 0, None)>>
    /\ frontier = <<1>>
    /\ explored = IF algo = "dfs" THEN <<>> ELSE (Board_str(initial) :> 1)
    /\ curr = None
    /\ successors = <<>>
    /\ pops = 0
    /\ pc = "search"
    /\ result = None
    /\ path = <<>>
    /\ state_count = 0
    /\ walk = NoWalk

\* dfs: the popped State passes goal_test and is returned
dfs_found ==
    /\ pc = "search" /\ algo = "dfs" /\ frontier # <<>>
    /\ LET c == frontier[Len(frontier)]
       IN  /\ goal_test(states[c])
           /\ curr' = c
           /\ frontier' = SubSeq(frontier, 1, Len(frontier) - 1)
           /\ result' = c
    /\ pops' = pops + 1
    /\ pc' = "returned"
    /\ UNCHANGED <<algo, initial, states, explored, successors, path, state_count, walk>>

\* dfs: the popped State fails goal_test and is expanded
dfs_expand ==
    /\ pc = "search" /\ algo = "dfs" /\ frontier # <<>>
    /\ \E c \in {frontier[Len(frontier)]} :
       \E succ \in {generate_successors(states[c], c)} :
       \E s \in {dfs_push([states   |-> states,
                           frontier |-> SubSeq(frontier, 1, Len(frontier) - 1),
                           explored |-> explored], succ, 1)} :
           /\ ~goal_test(states[c])
           /\ curr' = c
           /\ successors' = succ
           /\ states' = s.states
           /\ frontier' = s.frontier
           /\ explored' = s.explored
    /\ pops' = pops + 1
    /\ UNCHANGED <<algo, initial, pc, result, path, state_count, walk>>

\* dfs: the frontier is empty, None is returned
dfs_exhausted ==
    /\ pc = "search" /\ algo = "dfs" /\ frontier = <<>>
    /\ result' = None
    /\ pc' = "returned"
    /\ UNCHANGED <<algo, initial, states, frontier, explored, curr, successors, pops,
                   path, state_count, walk>>

dfs == dfs_found \/ dfs_expand \/ dfs_exhausted

\* astar: the popped State passes goal_test and is returned
astar_found ==
    /\ pc = "search" /\ algo = "astar" /\ frontier # <<>>
    /\ \E popped \in {heappop(states, frontier)} :
           /\ goal_test(states[popped[1]])
           /\ curr' = popped[1]
           /\ frontier' = popped[2]
           /\ result' = popped[1]
    /\ pops' = pops + 1
    /\ pc' = "returned"
    /\ UNCHANGED <<algo, initial, states, explored, successors, path, state_count, walk>>

\* astar: the popped State fails goal_test and is expanded
astar_expand ==
    /\ pc = "search" /\ algo = "astar" /\ frontier # <<>>
    /\ \E popped \in {heappop(states, frontier)} :
       \E c \in {popped[1]} :
       \E succ \in {generate_successors(states[c], c)} :
       \E s \in {astar_push([states   |-> states,
                             frontier |-> popped[2],
                             explored |-> explored], succ, 1)} :
           /\ ~goal_test(states[c])
           /\ curr' = c
           /\ successors' = succ
           /\ states' = s.states
           /\ frontier' = s.frontier
           /\ explored' = s.explored
    /\ pops' = pops + 1
    /\ UNCHANGED <<algo, initial, pc, result, path, state_count, walk>>

\* mutant of astar_exhausted: the State popped last is returned instead of None
astar_exhausted_returns_curr ==
    /\ pc = "search" /\ algo = "astar" /\ frontier = <<>>
    /\ result' = curr
    /\ pc' = "returned"
    /\ UNCHANGED <<algo, initial, states, frontier, explored, curr, successors, pops,
                   path, state_count, walk>>

\* astar: the frontier is empty, None is returned
astar_exhausted ==
    /\ pc = "search" /\ algo = "astar" /\ frontier = <<>>
    /\ result' = None
    /\ pc' = "returned"
    /\ UNCHANGED <<algo, initial, states, frontier, explored, curr, successors, pops,
                   path, state_count, walk>>

astar == astar_found \/ astar_expand \/ astar_exhausted

\* mutant of parent_chain: the walk stops at the root instead of after it
RECURSIVE parent_chain_stops_at_root(_, _)
parent_chain_stops_at_root(sts, state) ==
    IF state = None \/ sts[state].parent = None THEN <<>>
    ELSE <<sts[state].board>> \o parent_chain_stops_at_root(sts, sts[state].parent)

\* mutant of parent_chain: the Board is appended before the loop and, in the
\* loop, before state moves to its parent (the loop ends at the root)
parent_chain_appends_before_advance(sts, state) ==
    IF state = None THEN <<>>
    ELSE <<sts[state].board>> \o parent_chain_stops_at_root(sts, state)

\* get_solution, first loop: the Boards from state back to the root
RECURSIVE parent_chain(_, _)
parent_chain(sts, state) ==
    IF state = None THEN <<>>
    ELSE <<sts[state].board>> \o parent_chain(sts, sts[state].parent)

\* mutant of pop_all: the Boards are written in the order they were appended
pop_all_from_front(p) == p

\* get_solution, second loop: path.pop() until empty, in the order written
pop_all(p) == [k \in 1..Len(p) |-> p[Len(p) + 1 - k]]

get_solution ==
    /\ pc = "returned"
    /\ \E chain \in {parent_chain(states, result)} :
          /\ path' = pop_all(chain)
          /\ state_count' = Len(chain)
    /\ pc' = "done"
    /\ UNCHANGED <<algo, initial, states, frontier, explored, curr, successors, pops,
                   result, walk>>

Next == dfs \/ astar \/ get_solution

Spec == Init /\ [][Next]_vars

\* the interpreter runs the single thread until the program ends
FairSpec == Spec /\ WF_vars(Next)

(***************************************************************************)
(* The puzzle's slide relation as the specification states it (Move        *)
(* Generator, legality rules per piece kind): a slide of a piece by one    *)
(* cell is legal when every cell it newly covers is inside the grid and    *)
(* empty.  It is the yardstick of the claims, not a model of the code.     *)
(***************************************************************************)
Dirs == {"right", "left", "down", "up"}

DX(dir) == IF dir = "right" THEN 1 ELSE IF dir = "left" THEN -1 ELSE 0

DY(dir) == IF dir = "down" THEN 1 ELSE IF dir = "up" THEN -1 ELSE 0

Shift(p, dir) == [p EXCEPT !.coord_x = @ + DX(dir), !.coord_y = @ + DY(dir)]

Occupied(S) == UNION {Footprint(p) : p \in S}

\* the listed destination cells of piece p in direction dir
DestCells(p, dir) == Footprint(Shift(p, dir)) \ Footprint(p)

LegalSlide(S, p, dir) ==
    /\ DestCells(p, dir) \subseteq Cells
    /\ DestCells(p, dir) \cap Occupied(S) = {}

\* the layouts (sets of pieces) one legal slide away from layout S
LegalLayouts(S) ==
    {(S \ {pd[1]}) \cup {Shift(pd[1], pd[2])} :
        pd \in {qd \in S \X Dirs : LegalSlide(S, qd[1], qd[2])}}

PiecesOf(board) == {board.pieces[i] : i \in 1..Len(board.pieces)}

GoalAt(S, x, y) == \E p \in S : p.is_goal /\ p.coord_x = x /\ p.coord_y = y

Solved(S) == GoalAt(S, target_x, target_y)

\* breadth-first layers of the legal slide graph: the least number of legal
\* slides from a layout of `layer` to a solved layout, -1 when there is none
RECURSIVE MinSlidesFrom(_, _, _)
MinSlidesFrom(layer, seen, d) ==
    IF \E S \in layer : Solved(S) THEN d
    ELSE IF layer = {} THEN -1
    ELSE LET next == (UNION {LegalLayouts(S) : S \in layer}) \ seen
         IN  MinSlidesFrom(next, seen \cup next, d + 1)

MinSlides(board) == MinSlidesFrom({PiecesOf(board)}, {PiecesOf(board)}, 0)

\* a Board is valid: one goal piece, footprints inside the grid and disjoint
ValidBoard(board) ==
    /\ Cardinality({i \in 1..Len(board.pieces) : board.pieces[i].is_goal}) = 1
    /\ \A i \in 1..Len(board.pieces) : InGrid(board.pieces[i])
    /\ \A i, j \in 1..Len(board.pieces) :
          i # j => Footprint(board.pieces[i]) \cap Footprint(board.pieces[j]) = {}

KindOf(p) ==
    IF p.is_goal THEN "Goal" ELSE IF p.is_single THEN "Single"
    ELSE IF p.orientation = "h" THEN "HorizontalDomino"
    ELSE IF p.orientation = "v" THEN "VerticalDomino" ELSE "?"

KindCount(board, kind) ==
    Cardinality({i \in 1..Len(board.pieces) : KindOf(board.pieces[i]) = kind})

SameKinds(a, b) ==
    \A kind \in {"Goal", "Single", "HorizontalDomino", "VerticalDomino", "?"} :
        KindCount(a, kind) = KindCount(b, kind)

\* the loop has expanded curr: successors is generate_successors(curr)
Expanded == pc = "search" /\ curr # None

(***************************************************************************)
(* dfs(initial) as one call: the loop run to its return, for comparing the *)
(* two searches on one initial State                                       *)
(***************************************************************************)
RECURSIVE dfs_loop(_)
dfs_loop(s) ==
    IF s.frontier = <<>> THEN [states |-> s.states, result |-> None]
    ELSE LET c == s.frontier[Len(s.frontier)]
         IN  IF goal_test(s.states[c]) THEN [states |-> s.states, result |-> c]
             ELSE dfs_loop(dfs_push([states   |-> s.states,
                                     frontier |-> SubSeq(s.frontier, 1, Len(s.frontier) - 1),
                                     explored |-> s.explored],
                                    generate_successors(s.states[c], c), 1))

dfs_call(initial_state) ==
    dfs_loop([states |-> <<initial_state>>, frontier |-> <<1>>, explored |-> <<>>])

\* the layouts generate_successors builds from a Board of layout S
GeneratedLayouts(S) ==
    LET succ == generate_successors(State(Board(SetToSeq(S)), 0, 0, None), None)
    IN  {PiecesOf(succ[k].board) : k \in 1..Len(succ)}

\* some Board that passes goal_test is reachable through generate_successors
RECURSIVE GoalGeneratedFrom(_, _)
GoalGeneratedFrom(layer, seen) ==
    IF \E S \in layer : goal_test(State(Board(SetToSeq(S)), 0, 0, None)) THEN TRUE
    ELSE IF layer = {} THEN FALSE
    ELSE LET next == (UNION {GeneratedLayouts(S) : S \in layer}) \ seen
         IN  GoalGeneratedFrom(next, seen \cup next)

GoalGenerated(board) == GoalGeneratedFrom({PiecesOf(board)}, {PiecesOf(board)})

(***************************************************************************)
(* Slide sequences: from an initial Board, any sequence of slides, each    *)
(* either one generate_successors builds or a legal one it leaves out      *)
(***************************************************************************)
\* the Boards one legal slide away (built as new_board builds a successor)
LegalBoards(board) ==
    {new_board(board.pieces, Shift(board.pieces[id[1]], id[2]), id[1]) :
        id \in {jd \in (1..Len(board.pieces)) \X Dirs :
                   LegalSlide(PiecesOf(board), board.pieces[jd[1]], jd[2])}}

GeneratedBoards(board) ==
    LET succ == generate_successors(State(board, 0, 0, None), None)
    IN  {succ[k].board : k \in 1..Len(succ)}

SlideInit ==
    /\ \E file \in InputFiles :
          walk = [board |-> read_from_file(file),
                  h0 |-> manhattan(read_from_file(file)), goal_slides |-> 0]
    /\ initial = None
    /\ algo = "none"
    /\ states = <<>>
    /\ frontier = <<>>
    /\ explored = <<>>
    /\ curr = None
    /\ successors = <<>>
    /\ pops = 0
    /\ pc = "slide"
    /\ result = None
    /\ path = <<>>
    /\ state_count = 0

\* the sequence goes on with Board b
SlideTo(b) ==
    /\ get_goal(b) # get_goal(walk.board) => walk.goal_slides < MaxSlides
    /\ walk' = [board |-> b, h0 |-> walk.h0,
                goal_slides |-> IF get_goal(b) # get_goal(walk.board)
                                THEN walk.goal_slides + 1 ELSE walk.goal_slides]
    /\ UNCHANGED <<algo, initial, states, frontier, explored, curr, successors, pops,
                   pc, result, path, state_count>>

\* a slide generate_successors builds
slide_generated ==
    /\ pc = "slide"
    /\ \E b \in GeneratedBoards(walk.board) : SlideTo(b)

\* a legal slide generate_successors does not build
slide_left_out ==
    /\ pc = "slide"
    /\ \E b \in LegalBoards(walk.board) :
          /\ \A g \in GeneratedBoards(walk.board) : ~Board_eq(b, g)
          /\ SlideTo(b)

SlideNext == slide_generated \/ slide_left_out

SlideSpec == SlideInit /\ [][SlideNext]_vars

(***************************************************************************)
(* Claims                                                                  *)
(***************************************************************************)
\* C1 (as claimed): whenever astar returns a terminal State, its depth is the
\* least number of legal single-cell slides that bring the Goal piece from the
\* initial Board to anchor (1,3).
C1_AstarDepthIsMinimal ==
    (pc = "returned" /\ algo = "astar" /\ result # None)
        => states[result].depth = MinSlides(initial)

\* C2 (as claimed): if some sequence of legal slides leads from the initial
\* Board to a Board with the Goal piece at (1,3), the search returns a terminal
\* State that satisfies goal_test (None only when the goal is unreachable).
C2_SearchComplete ==
    (pc = "returned" /\ MinSlides(initial) >= 0)
        => (result # None /\ goal_test(states[result]))

\* the two cells the claim lists for the Goal piece at (x,y) in a direction
GoalListed(x, y, dir) ==
    IF dir = "right" THEN {<<x + 2, y>>, <<x + 2, y + 1>>}
    ELSE IF dir = "left" THEN {<<x - 1, y>>, <<x - 1, y + 1>>}
    ELSE IF dir = "down" THEN {<<x, y + 2>>, <<x + 1, y + 2>>}
    ELSE {<<x, y - 1>>, <<x + 1, y - 1>>}

GoalCanSlide(board, dir) ==
    LET g == get_goal(board)
    IN  \A c \in GoalListed(g[1], g[2], dir) : is_empty(board, c[1], c[2])

\* C3 (as claimed): for each direction whose two listed cells are empty on the
\* expanded Board, generate_successors returns a successor with the Goal piece
\* shifted one cell in that direction, one successor per legal direction.
C3_GoalMovesExhaustive ==
    Expanded =>
        \A dir \in Dirs :
            GoalCanSlide(states[curr].board, dir) =>
                \E k \in 1..Len(successors) :
                    get_goal(successors[k].board)
                        = <<get_goal(states[curr].board)[1] + DX(dir),
                            get_goal(states[curr].board)[2] + DY(dir)>>

\* C4: every Board the move generator builds from a Board reached from a valid
\* initial Board is valid (one Goal piece, footprints disjoint and inside
\* columns 0..3 and rows 0..4) and has the initial Board's number of pieces of
\* each kind.
C4_BoardsStayValid ==
    /\ ValidBoard(initial)
    /\ curr # None => (ValidBoard(states[curr].board) /\ SameKinds(states[curr].board, initial))
    /\ \A k \in 1..Len(successors) :
          ValidBoard(successors[k].board) /\ SameKinds(successors[k].board, initial)

\* C4 witness: an expansion, two slides below the root, that built three or
\* more successor Boards on a Board with a domino
C4_Witness ==
    /\ Expanded
    /\ states[curr].depth >= 2
    /\ Len(successors) >= 3
    /\ KindCount(initial, "VerticalDomino") = 1

\* C5: when both searches return a terminal State for the same initial Board,
\* the depth of the State astar returns is at most the depth of the State dfs
\* returns.
C5_AstarNoDeeperThanDfs ==
    (pc = "returned" /\ algo = "astar" /\ result # None) =>
        LET d == dfs_call(states[1])
        IN  d.result # None => states[result].depth <= d.states[d.result].depth

\* C5 witness: astar has returned a State strictly shallower than the one dfs
\* returns for the same initial Board
C5_Witness ==
    /\ pc = "returned" /\ algo = "astar" /\ result # None
    /\ LET d == dfs_call(states[1])
       IN  d.result # None /\ states[result].depth < d.states[d.result].depth

\* the initial Board of the straight-descent scenario: Goal piece at (1,0) and
\* the six cells below it empty
StraightDescent ==
    /\ get_goal(initial) = <<1, 0>>
    /\ \A c \in {<<1, 2>>, <<2, 2>>, <<1, 3>>, <<2, 3>>, <<1, 4>>, <<2, 4>>} :
          is_empty(initial, c[1], c[2])

\* C6 (as claimed): in the straight-descent scenario astar returns a terminal
\* State of depth exactly 3, and dfs returns a terminal State that satisfies
\* goal_test and has depth at least 3.
C6_StraightDescent ==
    (pc = "returned" /\ StraightDescent) =>
        /\ result # None
        /\ goal_test(states[result])
        /\ algo = "astar" => states[result].depth = 3
        /\ algo = "dfs" => states[result].depth >= 3

\* C7: for every Board the search holds, manhattan is 0 exactly when goal_test
\* succeeds, and goal_test succeeds exactly when the Goal piece's anchor is (1,3).
C7_ManhattanZeroIffGoal ==
    \A s \in {states[i] : i \in {1, curr} \ {None}} \cup {successors[k] : k \in 1..Len(successors)} :
        /\ manhattan(s.board) = 0 <=> goal_test(s)
        /\ goal_test(s) <=> get_goal(s.board) = <<target_x, target_y>>

\* C7 witness: a search popped a State that passes goal_test after at least
\* one expansion, and a generated successor has the Goal piece at (0,3)
C7_Witness ==
    /\ pc = "returned" /\ result # None /\ pops > 1
    /\ \E k \in 1..Len(successors) : get_goal(successors[k].board) = <<0, 3>>

\* C9: when the initial Board satisfies goal_test, the search returns the
\* initial State on the first pop without generating or pushing a successor,
\* and get_solution writes exactly the initial Board and counts 1.
C9_AlreadySolved ==
    goal_test(states[1]) =>
        /\ successors = <<>> /\ Len(states) = 1 /\ pops <= 1
        /\ pc # "search" => (result = 1 /\ pops = 1 /\ frontier = <<>>)
        /\ pc = "done" => (path = <<initial>> /\ state_count = 1)

\* C9 witness: get_solution has run for an initial Board that was already
\* solved and holds another piece
C9_Witness ==
    /\ pc = "done" /\ goal_test(states[1]) /\ Len(initial.pieces) = 2
    /\ path = <<initial>>

\* C10: both searches terminate; when no Board that passes goal_test is
\* reachable through generate_successors they return None, and get_solution
\* then yields the empty sequence and the count 0.
C10_TerminatesAndSignalsNone ==
    /\ <>(pc = "done")
    /\ []((pc # "search" /\ ~GoalGenerated(initial)) =>
            (result = None /\ path = <<>> /\ state_count = 0))

\* C10 witness: an initial Board without any legal move that fails goal_test:
\* the search ended with None after one pop and get_solution wrote nothing
C10_Witness ==
    /\ pc = "done" /\ result = None /\ pops = 1 /\ successors = <<>>
    /\ ~goal_test(states[1]) /\ path = <<>> /\ state_count = 0

\* C8: in every sequence of slides from a Board to a Board that passes
\* goal_test the Goal piece slides at least manhattan(Board) times, and
\* manhattan(Board) is at most the least number of legal slides to the goal.
C8_ManhattanAdmissible ==
    /\ goal_test(State(walk.board, 0, 0, None)) => walk.h0 <= walk.goal_slides
    /\ (walk.goal_slides = 0 /\ MinSlides(walk.board) >= 0)
          => manhattan(walk.board) <= MinSlides(walk.board)

\* C8 witness: a slide sequence from a Board at distance 4 reached the goal
\* with exactly 4 slides of the Goal piece
C8_Witness ==
    /\ goal_test(State(walk.board, 0, 0, None))
    /\ walk.h0 = 4
    /\ walk.goal_slides = 4

\* the Boards of the successors the last expansion generated
SuccessorBoards == {successors[k].board : k \in 1..Len(successors)}

\* the Boards of the States the search has pushed
PushedBoards == {states[i].board : i \in 1..Len(states)}

\* the Boards built from the piece list of board in every order
Reorderings(board) ==
    {Board([k \in 1..Len(board.pieces) |-> board.pieces[perm[k]]]) :
        perm \in Permutations(1..Len(board.pieces))}

\* C11: Boards built from piece lists that are permutations of one set of
\* placements compare equal and have equal hashes, and valid Boards compare
\* equal only if their sets of placements are the same; the reordering done by
\* new_board never makes two geometrically identical Boards unequal.
C11_BoardEqStructural ==
    \A a \in SuccessorBoards :
        /\ \A b \in Reorderings(a) : Board_eq(a, b) /\ Board_hash(a) = Board_hash(b)
        /\ \A b \in PushedBoards \cup SuccessorBoards :
              /\ Board_eq(a, b) <=> PiecesOf(a) = PiecesOf(b)
              /\ Board_eq(a, b) => Board_hash(a) = Board_hash(b)

\* C11 witness: the expansion generated a Board whose piece list differs in
\* order from the list of a pushed Board with the same placements, next to a
\* pushed Board with other placements
C11_Witness ==
    /\ Expanded
    /\ \E a \in SuccessorBoards : \E b, c \in PushedBoards :
          /\ a.pieces # b.pieces /\ PiecesOf(a) = PiecesOf(b) /\ Board_eq(a, b)
          /\ PiecesOf(a) # PiecesOf(c) /\ ~Board_eq(a, c)

\* C12: for every terminal State s a search returns, the Boards get_solution
\* writes are in root-to-goal order: s.depth + 1 Boards, the first the initial
\* Board, the last one passing goal_test, and each Board after the first a
\* successor generate_successors builds from the Board before it.
C12_PathReconstruction ==
    (pc = "done" /\ result # None) =>
        /\ Len(path) = states[result].depth + 1
        /\ path[1] = initial
        /\ goal_test(State(path[Len(path)], 0, 0, None))
        /\ \A i \in 1..(Len(path) - 1) : path[i + 1] \in GeneratedBoards(path[i])

\* C12 witness: get_solution wrote the path of a terminal State four or more
\* slides below the root
C12_Witness ==
    /\ pc = "done" /\ result # None
    /\ states[result].depth >= 4
    /\ Len(path) = states[result].depth + 1

\* the positions in successors of the States whose Board is board with piece p
\* shifted one cell in direction dir and every other piece kept
MovedTo(board, p, dir) ==
    {k \in 1..Len(successors) :
        /\ Len(successors[k].board.pieces) = Len(board.pieces)
        /\ PiecesOf(successors[k].board) = (PiecesOf(board) \ {p}) \cup {Shift(p, dir)}}

\* the cell next to (x,y) in direction dir is inside the grid and empty
NeighbourEmpty(board, x, y, dir) ==
    /\ <<x + DX(dir), y + DY(dir)>> \in Cells
    /\ board.grid[y + DY(dir)][x + DX(dir)] = char_empty

\* C13: for every Single piece at (x,y) of the expanded Board,
\* generate_successors returns a successor moving it right, left, down or up
\* exactly when the adjacent cell in that direction is inside the grid and
\* empty, each direction on its own: n empty in-bounds neighbours give
\* exactly n successors that move the piece.
C13_SingleMovesExact ==
    Expanded =>
        \A p \in {q \in PiecesOf(states[curr].board) : q.is_single} :
            /\ \A dir \in Dirs :
                  MovedTo(states[curr].board, p, dir) # {}
                      <=> NeighbourEmpty(states[curr].board, p.coord_x, p.coord_y, dir)
            /\ Cardinality(UNION {MovedTo(states[curr].board, p, dir) : dir \in Dirs})
                  = Cardinality({dir \in Dirs :
                        NeighbourEmpty(states[curr].board, p.coord_x, p.coord_y, dir)})

\* C13 witness: expansions of a Board whose Single piece has four empty
\* neighbours; the successors hold four States that move it
C13_Witness ==
    /\ Expanded
    /\ \E p \in {q \in PiecesOf(states[curr].board) : q.is_single} :
          /\ \A dir \in Dirs :
                NeighbourEmpty(states[curr].board, p.coord_x, p.coord_y, dir)
          /\ Cardinality(UNION {MovedTo(states[curr].board, p, dir) : dir \in Dirs}) = 4

\* the cells the claim lists for a domino at (x,y) in a direction
DominoListed(p, dir) ==
    LET x == p.coord_x
        y == p.coord_y
    IN  IF p.orientation = "h"
        THEN IF dir = "right" THEN {<<x + 2, y>>}
             ELSE IF dir = "left" THEN {<<x - 1, y>>}
             ELSE IF dir = "down" THEN {<<x, y + 1>>, <<x + 1, y + 1>>}
             ELSE {<<x, y - 1>>, <<x + 1, y - 1>>}
        ELSE IF dir = "down" THEN {<<x, y + 2>>}
             ELSE IF dir = "up" THEN {<<x, y - 1>>}
             ELSE IF dir = "right" THEN {<<x + 1, y>>, <<x + 1, y + 1>>}
             ELSE {<<x - 1, y>>, <<x - 1, y + 1>>}

\* C14 (as claimed): for every domino of the expanded Board and each of the
\* four directions on its own, if all cells listed for its kind and direction
\* are empty, generate_successors returns a successor with the domino shifted
\* one cell in that direction, also when the opposite direction is legal too.
C14_DominoMovesExhaustive ==
    Expanded =>
        \A p \in {q \in PiecesOf(states[curr].board) : q.orientation \in {"h", "v"}} :
            \A dir \in Dirs :
                (\A c \in DominoListed(p, dir) : is_empty(states[curr].board, c[1], c[2]))
                    => MovedTo(states[curr].board, p, dir) # {}

\* successor Board b differs from board in exactly one piece, shifted one cell
\* along one axis with its kind kept, and is rendered from its own piece list
OneSlideApart(board, b) ==
    /\ Len(b.pieces) = Len(board.pieces)
    /\ b.grid = construct_grid(b.pieces)
    /\ Cardinality({pd \in PiecesOf(board) \X Dirs :
            PiecesOf(b) = (PiecesOf(board) \ {pd[1]}) \cup {Shift(pd[1], pd[2])}}) = 1

\* C15: every successor Board generate_successors returns differs from the
\* expanded Board in exactly one piece, of unchanged kind and orientation and
\* with its anchor shifted by one cell along one axis, every other piece
\* keeping kind and anchor; and no step of the search modifies the Board, the
\* piece list or the grid of a State it holds (the expanded State included).
C15_MoveFrame ==
    /\ [](Expanded =>
            /\ states[curr].board.grid = construct_grid(states[curr].board.pieces)
            /\ \A b \in SuccessorBoards : OneSlideApart(states[curr].board, b))
    /\ [][\A i \in 1..Len(states) : Len(states') >= i /\ states'[i] = states[i]]_vars

\* C15 witness: an expansion returned successors that move the Goal piece and
\* successors that move another piece, among them a domino slid sideways
C15_Witness ==
    /\ Expanded
    /\ \E a, b \in SuccessorBoards :
          /\ get_goal(a) # get_goal(states[curr].board)
          /\ get_goal(b) = get_goal(states[curr].board)
          /\ \E p \in PiecesOf(states[curr].board) :
                p.orientation = "v" /\ b.pieces[1] = Shift(p, "right")

\* the number of parent links from the State at ref to the root
RECURSIVE ParentLinks(_)
ParentLinks(ref) ==
    IF states[ref].parent = None THEN 0 ELSE 1 + ParentLinks(states[ref].parent)

\* the references the frontier holds
OnFrontier == {frontier[k] : k \in 1..Len(frontier)}

\* C16: every State of a search started from State(board, manhattan(board), 0)
\* has depth = parent.depth + 1 with its parent the State that was expanded
\* (the root: depth 0 and no parent), a depth equal to the number of parent
\* links to the root, and cost f = manhattan(its Board) + depth.
C16_NodeBookkeeping ==
    /\ states[1] = State(initial, manhattan(initial), 0, None)
    /\ \A i \in 2..Len(states) :
          /\ states[i].parent \in 1..(i - 1)
          /\ states[i].parent \notin OnFrontier
          /\ states[i].depth = states[states[i].parent].depth + 1
          /\ states[i].depth = ParentLinks(i)
          /\ states[i].f = manhattan(states[i].board) + states[i].depth
    /\ Expanded =>
          \A k \in 1..Len(successors) :
              /\ successors[k].parent = curr
              /\ successors[k].depth = states[curr].depth + 1
              /\ successors[k].depth = ParentLinks(curr) + 1
              /\ successors[k].f = manhattan(successors[k].board) + successors[k].depth

\* C16 witness: a pushed State five parent links below the root whose cost is
\* above its depth, while its parent's successors are those generated last
C16_Witness ==
    /\ Expanded
    /\ successors # <<>>
    /\ \E i \in 2..Len(states) :
          /\ states[i].parent = curr
          /\ ParentLinks(i) = 5
          /\ states[i].f > states[i].depth

\* C17 (as claimed): during a run of dfs no rendered grid is placed on the
\* frontier more than once, the placement of the initial State counted (every
\* State placed on the frontier is in states), so that no rendered grid is
\* popped and expanded more than once.
C17_DfsPushesGridOnce ==
    algo = "dfs" =>
        \A i, j \in 1..Len(states) :
            i # j => states[i].board.grid # states[j].board.grid

\* astar has recorded, for the Board of State s, a State of cost at most s.f
\* (and so of depth at most s.depth)
RecordedNoWorse(s) ==
    /\ Board_str(s.board) \in DOMAIN explored
    /\ states[explored[Board_str(s.board)]].f <= s.f
    /\ states[explored[Board_str(s.board)]].depth <= s.depth

\* the step pushed successor s: it is a State added to states by the step
PushedByStep(s) == \E i \in (Len(states) + 1)..Len(states') : states'[i] = s

\* what one expansion of astar does with the successors it generated
AstarPushRule ==
    (algo = "astar" /\ pc' = "search" /\ pops' # pops) =>
        /\ \A k \in 1..Len(successors') :
              LET s == successors'[k]
                  key == Board_str(s.board)
              IN  /\ PushedByStep(s) <=>
                        (key \notin DOMAIN explored \/ s.f < states[explored[key]].f)
                  /\ PushedByStep(s) =>
                        (states'[explored'[key]] = s /\ explored'[key] \in
                            {frontier'[j] : j \in 1..Len(frontier')})
                  /\ ~PushedByStep(s) => explored'[key] = explored[key]
        /\ \A i \in (Len(states) + 1)..Len(states') :
              \E k \in 1..Len(successors') : states'[i] = successors'[k]
        /\ \A key \in DOMAIN explored :
              /\ key \in DOMAIN explored'
              /\ states'[explored'[key]].f <= states[explored[key]].f

\* C18: at every point of a run of astar every State on the frontier has its
\* Board as a key of explored, and the State recorded for a Board has the
\* lowest cost f (equally the lowest depth) among the States with that Board
\* generated so far; a successor is pushed and recorded exactly when its Board
\* is absent from explored or its cost is strictly lower than the recorded
\* State's cost (an equal cost neither replaces nor pushes again).
C18_AstarExploredMap ==
    /\ [](algo = "astar" =>
            /\ \A ref \in OnFrontier : Board_str(states[ref].board) \in DOMAIN explored
            /\ \A key \in DOMAIN explored :
                  Board_str(states[explored[key]].board) = key
            /\ \A i \in 1..Len(states) : RecordedNoWorse(states[i])
            /\ Expanded => \A k \in 1..Len(successors) : RecordedNoWorse(successors[k]))
    /\ [][AstarPushRule]_vars

\* C18 witness: an expansion of astar generated a successor of a cost equal to
\* the cost recorded for its Board, which was not pushed, one of a higher cost,
\* and one whose Board was absent and is now recorded
C18_Witness ==
    /\ algo = "astar" /\ Expanded
    /\ \E k \in 1..Len(successors) :
          /\ successors[k].f = states[explored[Board_str(successors[k].board)]].f
          /\ \A i \in 1..Len(states) : states[i] # successors[k]
    /\ \E k \in 1..Len(successors) :
          successors[k].f > states[explored[Board_str(successors[k].board)]].f
    /\ \E k \in 1..Len(successors) :
          states[explored[Board_str(successors[k].board)]] = successors[k]

\* breadth-first layers of the graph generate_successors builds: the least
\* depth of a Board passing goal_test, -1 when there is none
RECURSIVE MinGeneratedFrom(_, _, _)
MinGeneratedFrom(layer, seen, d) ==
    IF \E S \in layer : goal_test(State(Board(SetToSeq(S)), 0, 0, None)) THEN d
    ELSE IF layer = {} THEN -1
    ELSE LET next == (UNION {GeneratedLayouts(S) : S \in layer}) \ seen
         IN  MinGeneratedFrom(next, seen \cup next, d + 1)

MinGenerated(board) == MinGeneratedFrom({PiecesOf(board)}, {PiecesOf(board)}, 0)

\* C19: in every run of astar the cost f of each popped State is at least the
\* cost of the State popped before it (and so of every State popped earlier),
\* a successor never costs less than the State it was generated from, and the
\* State astar returns has the lowest depth among the States passing goal_test
\* that are reachable through generate_successors.
C19_MonotonePops ==
    /\ [][(algo = "astar" /\ curr # None /\ pops' # pops)
            => states'[curr'].f >= states[curr].f]_vars
    /\ []((algo = "astar" /\ Expanded)
            => \A k \in 1..Len(successors) : successors[k].f >= states[curr].f)
    /\ []((algo = "astar" /\ pc = "returned" /\ result # None)
            => states[result].depth = MinGenerated(initial))

\* C19 witness: astar returned, after six or more pops, a State of a cost
\* above the cost of the root
C19_Witness ==
    /\ algo = "astar" /\ pc = "returned" /\ result # None
    /\ pops >= 6
    /\ states[result].f > states[1].f

\* the Boards of a sequence are pairwise distinct as rendered grids
DistinctGrids(boards) ==
    \A i, j \in 1..Len(boards) : i # j => ~Board_eq(boards[i], boards[j])

\* C20: for every terminal State dfs or astar returns, the Boards along its
\* parent chain from the root are pairwise distinct as rendered grids: the
\* solution get_solution writes never visits a Board twice and never returns
\* to the initial Board.
C20_LoopFreeSolution ==
    /\ (pc = "returned" /\ result # None) => DistinctGrids(parent_chain(states, result))
    /\ (pc = "done" /\ result # None) =>
          /\ DistinctGrids(path)
          /\ \A i \in 2..Len(path) : ~Board_eq(path[i], initial)

\* C20 witness: dfs returned a State after the initial grid had been pushed a
\* second time, and get_solution wrote a path of five or more Boards
C20_Witness ==
    /\ algo = "dfs" /\ pc = "done" /\ result # None
    /\ Len(path) >= 5
    /\ \E i \in 2..Len(states) : Board_eq(states[i].board, initial)

=============================================================================
